---- MODULE Spec2Model ----
(***************************************************************************)
(* Model of the batch ETL pipeline of etl_tasks.py: extract (pandas read), *)
(* transform_orders_df, basic_data_quality_checks, structural validation,  *)
(* and the staging / COPY / date-cast / upsert load against PostgreSQL.    *)
(*                                                                         *)
(* Values.  A cell is a record [k, v]: k is the kind of the value and v    *)
(* its payload.  Kinds: "null" (NaN / None / SQL NULL), "int", "float"     *)
(* (payload in tenths, so 2.5 is 25 and 1.0 is 10), "bool", "str", "ts"   *)
(* (a pandas Timestamp, payload the ISO date) and "date" (an SQL DATE).    *)
(* A DataFrame is [cols, dtype, rows]: the ordered column names, the       *)
(* pandas dtype of each column and the rows (functions column -> cell).    *)
(* A relation is [exists, cols, types, key, rows]; key is the column that  *)
(* carries a unique / primary-key constraint, or NoKey.                    *)
(*                                                                         *)
(* The engine is the one the repository runs on under Airflow 2            *)
(* (schedule_interval in the DAG): SQLAlchemy 1.x, where a statement       *)
(* executed on engine.connect() autocommits and a failed one is rolled     *)
(* back on its own.                                                        *)
(***************************************************************************)
EXTENDS Integers, Sequences, FiniteSets, TLC

VARIABLES
    pc,          \* position of the orchestrator inside the current run
    runs,        \* number of runs started so far
    src,         \* content of the source object of the current run
    df,          \* the DataFrame the run holds (df_raw, then df_clean)
    dq,          \* report of basic_data_quality_checks for this run
    mode,        \* "none" until the load branch is taken, then "upsert" | "append"
    sink,        \* the target relation TARGET_TABLE
    staging,     \* the relation TARGET_TABLE + "_staging"
    err,         \* the exception the run raised, NoError while it has not
    stages,      \* stages this run has entered, in order
    sinkAtStart, \* sink when the current run began
    stagingAtStart, \* staging relation when the current run began
    rerun,       \* TRUE when the run re-reads the object the previous run read
    prevDone,    \* TRUE when this run repeats a run that completed an upsert load
    col,         \* column handed to the type inferencer (inference runs)
    sqlType      \* the storage type the inferencer returned for col

vars == <<pc, runs, src, df, dq, mode, sink, staging, err, stages,
          sinkAtStart, stagingAtStart, rerun, prevDone, col, sqlType>>

----------------------------------------------------------------------------
(* Bounds of the model *)

MaxRows == 2
MaxRuns == 2
MaxColLen == 3
MaxCastRows == 11
MaxFnRows == 2

(* Program constants *)

SampleLimit == 10

UNIQUE_KEY == "order_id"
REQUIRED_COLUMNS == <<"order_id", "user_id", "product_id", "quantity", "price", "order_date">>
NoKey == ""

----------------------------------------------------------------------------
(* Cells *)

Null == [k |-> "null", v |-> 0]
IntC(n) == [k |-> "int", v |-> n]
FloatC(t) == [k |-> "float", v |-> t]
BoolC(b) == [k |-> "bool", v |-> b]
StrC(s) == [k |-> "str", v |-> s]
TsC(s) == [k |-> "ts", v |-> s]
DateC(s) == [k |-> "date", v |-> s]

IsNull(c) == c.k = "null"

Range(s) == {s[i] : i \in DOMAIN s}

SeqOf(S, n) == UNION {[1..m -> S] : m \in 0..n}

ColumnOf(rows, c) == [i \in DOMAIN rows |-> rows[i][c]]

----------------------------------------------------------------------------
(* Text conversions *)

\* str() of a cell as pandas keeps it in an object column / writes it to CSV
CellText(c) ==
    CASE c.k = "int" -> ToString(c.v)
      [] c.k = "float" -> ToString(c.v \div 10) \o "." \o ToString(c.v % 10)
      [] c.k = "bool" -> IF c.v THEN "True" ELSE "False"
      [] OTHER -> c.v

\* pd.to_datetime(..., errors="coerce") followed by .date().isoformat():
\* the ISO date of a parseable text, "" (NaT) otherwise
PandasDate(s) ==
    CASE s = "2024-01-01" -> "2024-01-01"
      [] s = "2024-01-05" -> "2024-01-05"
      [] s = "2024-01-02T10:00:00" -> "2024-01-02"
      [] OTHER -> ""

\* PostgreSQL's text::date : the date, or "" when the input is rejected
PgDate(s) ==
    CASE s = "2024-01-01" -> "2024-01-01"
      [] s = "2024-01-05" -> "2024-01-05"
      [] s = "2024-01-02" -> "2024-01-02"
      [] s = "2024-01-02T10:00:00" -> "2024-01-02"
      [] OTHER -> ""

\* pd.to_numeric(..., errors="coerce") of one cell
ToNumeric(c) ==
    CASE c.k \in {"int", "float"} -> c
      [] c.k = "bool" -> IntC(IF c.v THEN 1 ELSE 0)
      [] c.k = "str" /\ c.v = "3" -> IntC(3)
      [] c.k = "str" /\ c.v = "2.5" -> FloatC(25)
      [] OTHER -> Null

\* c.strip().lower() on a header name
NormalizeName(c) ==
    CASE c = " Order_ID " -> "order_id"
      [] c = "ORDER_DATE" -> "order_date"
      [] c = "Quantity" -> "quantity"
      [] OTHER -> c

----------------------------------------------------------------------------
(* pandas: reading an object into a DataFrame (download_object_as_df) *)

\* the dtype pandas infers for a column of values
InferDtype(cells) ==
    LET kinds == {cells[i].k : i \in DOMAIN cells} IN
    IF cells = <<>> THEN "object"
    ELSE IF kinds \subseteq {"int"} THEN "int64"
    ELSE IF kinds \subseteq {"int", "float", "null"} THEN "float64"
    ELSE IF kinds \subseteq {"bool"} THEN "bool"
    ELSE IF kinds \subseteq {"ts", "null"} THEN "datetime64"
    ELSE "object"

\* the value pandas stores for a parsed cell in a column of the given dtype
StoreAs(dtype, c) ==
    CASE dtype = "float64" /\ c.k = "int" -> FloatC(10 * c.v)
      [] dtype = "object" /\ c.k \in {"int", "float"} -> StrC(CellText(c))
      [] OTHER -> c

\* pd.read_csv / pd.read_json: columns verbatim, one dtype per column
download_object_as_df(file) ==
    LET names == Range(file.cols)
        dt == [c \in names |-> InferDtype(ColumnOf(file.rows, c))]
    IN [cols |-> file.cols,
        dtype |-> dt,
        rows |-> [i \in DOMAIN file.rows |->
                     [c \in names |-> StoreAs(dt[c], file.rows[i][c])]]]

----------------------------------------------------------------------------
(* Transform *)

\* to_iso_date(pd.to_datetime(val, errors="coerce"))
to_iso_date(c) ==
    CASE c.k = "str" -> IF PandasDate(c.v) = "" THEN Null ELSE StrC(PandasDate(c.v))
      [] c.k = "ts" -> StrC(c.v)
      [] c.k \in {"int", "float"} -> StrC("1970-01-01")
      [] OTHER -> Null

\* pd.to_numeric(errors="coerce").fillna(0).astype(int)
QuantityCell(c) ==
    LET n == ToNumeric(c) IN
    CASE n.k = "int" -> n
      [] n.k = "float" -> IntC(n.v \div 10)
      [] OTHER -> IntC(0)

\* pd.to_numeric(errors="coerce").fillna(0.0), in a column of dtype dt
PriceCell(dt, c) ==
    LET n == ToNumeric(c) IN
    IF dt = "int64" THEN n
    ELSE CASE n.k = "int" -> FloatC(10 * n.v)
           [] n.k = "float" -> n
           [] OTHER -> FloatC(0)

\* quantity * price
TotalCell(q, p) == IF p.k = "int" THEN IntC(q.v * p.v) ELSE FloatC(q.v * p.v)

RenameColumns(d) ==
    LET names == {NormalizeName(d.cols[i]) : i \in DOMAIN d.cols}
        orig(n) == CHOOSE c \in Range(d.cols) : NormalizeName(c) = n
    IN [cols |-> [i \in DOMAIN d.cols |-> NormalizeName(d.cols[i])],
        dtype |-> [n \in names |-> d.dtype[orig(n)]],
        rows |-> [i \in DOMAIN d.rows |-> [n \in names |-> d.rows[i][orig(n)]]]]

ParseOrderDate(d) ==
    IF "order_date" \notin Range(d.cols) THEN d
    ELSE [d EXCEPT !.dtype["order_date"] = "object",
                   !.rows = [i \in DOMAIN d.rows |->
                       [d.rows[i] EXCEPT !["order_date"] = to_iso_date(@)]]]

DeriveTotal(d) ==
    IF ~({"quantity", "price"} \subseteq Range(d.cols)) THEN d
    ELSE LET names == Range(d.cols) \cup {"total_price"}
             pdt == IF d.rows = <<>> THEN d.dtype["price"]
                    ELSE InferDtype([i \in DOMAIN d.rows |-> ToNumeric(d.rows[i]["price"])])
             pt == IF pdt = "int64" THEN "int64" ELSE "float64"
             q(i) == QuantityCell(d.rows[i]["quantity"])
             p(i) == PriceCell(pt, d.rows[i]["price"])
         IN [cols |-> IF "total_price" \in Range(d.cols) THEN d.cols
                      ELSE Append(d.cols, "total_price"),
             dtype |-> [n \in names |->
                          CASE n = "quantity" -> "int64"
                            [] n \in {"price", "total_price"} -> pt
                            [] OTHER -> d.dtype[n]],
             rows |-> [i \in DOMAIN d.rows |-> [n \in names |->
                          CASE n = "quantity" -> q(i)
                            [] n = "price" -> p(i)
                            [] n = "total_price" -> TotalCell(q(i), p(i))
                            [] OTHER -> d.rows[i][n]]]]

\* faulty variant: the null-key filter is left out
DropNullKeys_Keep(d) == d

\* df.dropna(subset=[UNIQUE_KEY]) followed by reset_index(drop=True)
DropNullKeys(d) ==
    IF UNIQUE_KEY \notin Range(d.cols) THEN d
    ELSE [d EXCEPT !.rows = SelectSeq(d.rows, LAMBDA r : ~IsNull(r[UNIQUE_KEY]))]

transform_orders_df(d) == DropNullKeys(DeriveTotal(ParseOrderDate(RenameColumns(d))))

----------------------------------------------------------------------------
(* Quality gate *)

HasDuplicates(cells) ==
    \E i, j \in DOMAIN cells : i < j /\ cells[i] = cells[j]

MissingColumns(d, required) ==
    SelectSeq(required, LAMBDA c : c \notin Range(d.cols))

\* faulty variant: the duplicate-key check is left out
basic_data_quality_checks_NoDuplicateCheck(d) ==
    (IF MissingColumns(d, REQUIRED_COLUMNS) # <<>> THEN <<"missing">> ELSE <<>>)
    \o (IF Len(d.rows) = 0 THEN <<"empty">> ELSE <<>>)

\* the report: one tag per message, in the order the code appends them
basic_data_quality_checks(d) ==
    (IF MissingColumns(d, REQUIRED_COLUMNS) # <<>> THEN <<"missing">> ELSE <<>>)
    \o (IF Len(d.rows) = 0 THEN <<"empty">> ELSE <<>>)
    \o (IF UNIQUE_KEY \in Range(d.cols) /\ HasDuplicates(ColumnOf(d.rows, UNIQUE_KEY))
        THEN <<"duplicate">> ELSE <<>>)

----------------------------------------------------------------------------
(* Type inferencer *)

\* faulty variant: the boolean branch is left out
pandas_dtype_to_sqlalchemy_NoBoolean(dtype) ==
    IF dtype = "int64" THEN "INTEGER"
    ELSE IF dtype = "float64" THEN "FLOAT"
    ELSE IF dtype = "datetime64" THEN "DATE"
    ELSE "TEXT"

pandas_dtype_to_sqlalchemy(dtype) ==
    IF dtype = "int64" THEN "INTEGER"
    ELSE IF dtype = "float64" THEN "FLOAT"
    ELSE IF dtype = "bool" THEN "BOOLEAN"
    ELSE IF dtype = "datetime64" THEN "DATE"
    ELSE "TEXT"

----------------------------------------------------------------------------
(* Relations of the target database *)

NoTable == [exists |-> FALSE, cols |-> <<>>, types |-> <<>>, key |-> NoKey, rows |-> <<>>]

\* CREATE TABLE name (one column per DataFrame column, type by the inferencer);
\* the Column objects carry no primary_key / unique flag, so no constraint
TableFor(d) ==
    [exists |-> TRUE,
     cols |-> d.cols,
     types |-> [c \in Range(d.cols) |-> pandas_dtype_to_sqlalchemy(d.dtype[c])],
     key |-> NoKey,
     rows |-> <<>>]

\* the relation sql/create_target_table.sql provisions (init_db_and_seed.py)
ProvisionedSink ==
    [exists |-> TRUE,
     cols |-> <<"order_id", "user_id", "product_id", "quantity", "price",
                "order_date", "total_price">>,
     types |-> [c \in {"order_id", "user_id", "product_id", "quantity", "price",
                       "order_date", "total_price"} |->
                  CASE c \in {"price", "total_price"} -> "FLOAT"
                    [] c = "order_date" -> "DATE"
                    [] OTHER -> "INTEGER"],
     key |-> UNIQUE_KEY,
     rows |-> <<>>]

\* create_table_if_not_exists(engine, table_name, df.head(0)): head(0) keeps
\* the columns and dtypes and drops the rows; checkfirst leaves an existing
\* relation alone
create_table_if_not_exists(rel, d) ==
    IF rel.exists THEN rel ELSE TableFor([d EXCEPT !.rows = <<>>])

----------------------------------------------------------------------------
(* COPY ... FROM STDIN WITH (FORMAT csv, HEADER true) *)

Bad == [k |-> "bad", v |-> 0]

\* the value PostgreSQL stores when the CSV field written for cell c is read
\* into a column of type t; Bad when the field is rejected.  to_csv writes
\* NaN / None as the empty field, which COPY reads as NULL.
CopyField(c, t) ==
    CASE c.k = "null" -> Null
      [] c.k = "str" /\ c.v = "" -> Null
      [] t = "TEXT" -> StrC(CellText(c))
      [] t = "INTEGER" -> IF c.k = "int" THEN c ELSE Bad
      [] t = "FLOAT" -> CASE c.k = "int" -> FloatC(10 * c.v)
                          [] c.k = "float" -> c
                          [] OTHER -> Bad
      [] t = "BOOLEAN" -> CASE c.k = "bool" -> c
                            [] c.k = "int" /\ c.v \in {0, 1} -> BoolC(c.v = 1)
                            [] OTHER -> Bad
      [] t = "DATE" -> CASE c.k \in {"ts", "date"} -> DateC(c.v)
                         [] c.k = "str" /\ PgDate(c.v) # "" -> DateC(PgDate(c.v))
                         [] OTHER -> Bad
      [] OTHER -> Bad

\* rows COPY appends: the i-th CSV field goes to the i-th column of the relation
CopyRows(rel, d) ==
    [i \in DOMAIN d.rows |->
        [c \in Range(rel.cols) |->
            LET j == CHOOSE n \in DOMAIN rel.cols : rel.cols[n] = c
            IN CopyField(d.rows[i][d.cols[j]], rel.types[c])]]

\* faulty variant: the key constraint rejects nulls only, a duplicate is stored
KeyViolation_NullsOnly(rel, rows) ==
    /\ rel.key # NoKey
    /\ \E i \in DOMAIN rows : IsNull(rows[i][rel.key])

KeyViolation(rel, rows) ==
    /\ rel.key # NoKey
    /\ \/ \E i \in DOMAIN rows : IsNull(rows[i][rel.key])
       \/ HasDuplicates(ColumnOf(rel.rows \o rows, rel.key))

CopyFails(rel, d) ==
    \/ ~rel.exists
    \/ d.rows # <<>> /\ Len(d.cols) # Len(rel.cols)
    \/ /\ Len(d.cols) = Len(rel.cols)
       /\ \/ \E i \in DOMAIN d.rows : \E c \in Range(rel.cols) : CopyRows(rel, d)[i][c] = Bad
          \/ KeyViolation(rel, CopyRows(rel, d))

\* copy_df_to_table_via_copy: all rows on commit, none after the rollback
copy_df_to_table_via_copy(rel, d) ==
    IF CopyFails(rel, d) THEN rel
    ELSE [rel EXCEPT !.rows = rel.rows \o CopyRows(rel, d)]

----------------------------------------------------------------------------
(* Date reconciliation *)

\* the exception a run ends with: its kind, the statement that raised it, the
\* payload of a date-cast error, and whether the database refused a statement
\* the data did not make it refuse (server or connection failure)
NoError == [kind |-> "none", at |-> "", column |-> "", sample |-> <<>>, injected |-> FALSE]
Raised(kind, at) ==
    [kind |-> kind, at |-> at, column |-> "", sample |-> <<>>, injected |-> FALSE]
Fault(at) ==
    [kind |-> "Load", at |-> at, column |-> "", sample |-> <<>>, injected |-> TRUE]

\* "date" in c.lower()
ContainsDate(c) ==
    c \in {"order_date", "ship_date", "ORDER_DATE", "Ship_Date", "date_id"}

DateCols(d) == SelectSeq(d.cols, LAMBDA c : ContainsDate(c))

\* whether ALTER COLUMN c TYPE date USING (c::date) is rejected
CastRejected(rel, c) ==
    CASE rel.types[c] = "DATE" -> FALSE
      [] rel.types[c] = "TEXT" ->
            \E i \in DOMAIN rel.rows :
                ~IsNull(rel.rows[i][c]) /\ PgDate(rel.rows[i][c].v) = ""
      [] OTHER -> TRUE

\* the relation after the ALTER has been applied to column c
CastColumn(rel, c) ==
    IF rel.types[c] = "DATE" THEN rel
    ELSE [rel EXCEPT !.types[c] = "DATE",
                     !.rows = [i \in DOMAIN rel.rows |->
                         [rel.rows[i] EXCEPT ![c] =
                             IF IsNull(@) THEN Null ELSE DateC(PgDate(@.v))]]]

\* faulty variant: the sample query has no LIMIT
SampleVals_NoLimit(rel, c) == ColumnOf(rel.rows, c)

\* SELECT c FROM staging LIMIT 10
SampleVals(rel, c) ==
    LET vals == ColumnOf(rel.rows, c)
    IN SubSeq(vals, 1, IF Len(vals) < SampleLimit THEN Len(vals) ELSE SampleLimit)

\* the loop over date_cols: the relation and the exception it ends with
RECURSIVE CastLoop(_, _)
CastLoop(rel, cs) ==
    IF cs = <<>> THEN [rel |-> rel, err |-> NoError]
    ELSE IF CastRejected(rel, Head(cs))
         THEN [rel |-> rel,
               err |-> [kind |-> "TypeCoercion", at |-> "cast", column |-> Head(cs),
                        sample |-> SampleVals(rel, Head(cs)), injected |-> FALSE]]
         ELSE CastLoop(CastColumn(rel, Head(cs)), Tail(cs))

attempt_cast_date_columns(rel, d) == CastLoop(rel, DateCols(d))

----------------------------------------------------------------------------
(* The upsert statement *)

\* PostgreSQL assignment casts between the storage types in use
Assignable(from, to) ==
    \/ from = to
    \/ to = "TEXT"
    \/ from \in {"INTEGER", "FLOAT"} /\ to \in {"INTEGER", "FLOAT"}

\* the value stored when c is assigned to a column of type t
AssignCell(c, t) ==
    CASE c.k = "null" -> Null
      [] t = "TEXT" -> StrC(CellText(c))
      [] t = "INTEGER" /\ c.k = "float" -> IntC((c.v + 5) \div 10)
      [] t = "FLOAT" /\ c.k = "int" -> FloatC(10 * c.v)
      [] OTHER -> c

\* the row of the sink the statement builds from one staging row
SinkRowOf(snk, cols, r) ==
    [c \in Range(snk.cols) |->
        IF c \in Range(cols) THEN AssignCell(r[c], snk.types[c]) ELSE Null]

\* faulty variant: a plain INSERT, no conflict clause
UpsertRow_InsertOnly(rows, cols, key, new) == Append(rows, new)

\* faulty variant: ON CONFLICT DO NOTHING
UpsertRow_DoNothing(rows, cols, key, new) ==
    IF \E i \in DOMAIN rows : rows[i][key] = new[key] THEN rows ELSE Append(rows, new)

\* ON CONFLICT (key) DO UPDATE SET every other listed column = EXCLUDED.column
UpsertRow(rows, cols, key, new) ==
    IF \E i \in DOMAIN rows : rows[i][key] = new[key]
    THEN [i \in DOMAIN rows |->
            IF rows[i][key] = new[key]
            THEN [c \in DOMAIN rows[i] |->
                    IF c \in Range(cols) /\ c # key THEN new[c] ELSE rows[i][c]]
            ELSE rows[i]]
    ELSE Append(rows, new)

RECURSIVE UpsertRows(_, _, _, _)
UpsertRows(rows, cols, key, news) ==
    IF news = <<>> THEN rows
    ELSE UpsertRows(UpsertRow(rows, cols, key, Head(news)), cols, key, Tail(news))

\* the conditions under which PostgreSQL rejects the statement
UpsertRejected(snk, stg, cols, key) ==
    \/ ~snk.exists \/ ~stg.exists
    \/ ~(Range(cols) \subseteq Range(snk.cols) \cap Range(stg.cols))
    \/ key \notin Range(snk.cols) \/ snk.key # key
    \/ Range(cols) \subseteq {key}
    \/ /\ Range(cols) \subseteq Range(snk.cols) \cap Range(stg.cols)
       /\ \/ \E c \in Range(cols) : ~Assignable(stg.types[c], snk.types[c])
          \/ key \notin Range(cols)
          \/ /\ key \in Range(cols)
             /\ LET ks == [i \in DOMAIN stg.rows |->
                              AssignCell(stg.rows[i][key], snk.types[key])]
                IN HasDuplicates(ks) \/ \E i \in DOMAIN ks : IsNull(ks[i])

\* INSERT INTO sink (cols) SELECT cols FROM staging ON CONFLICT (key) DO UPDATE
Upsert(snk, stg, cols, key) ==
    [snk EXCEPT !.rows =
        UpsertRows(snk.rows, cols, key,
                   [i \in DOMAIN stg.rows |-> SinkRowOf(snk, cols, stg.rows[i])])]

----------------------------------------------------------------------------
(* Source objects the pipeline runs read *)

Keys == {1, 2}

PipelineHeaders == {REQUIRED_COLUMNS, Append(REQUIRED_COLUMNS, "ship_date")}

\* the cells of one data line that vary: <<order_id, order_date, ship_date>>
RowChoices(h) ==
    IF "ship_date" \in Range(h)
    THEN {<<IntC(1), StrC("2024-01-01"), s>> :
             s \in {StrC("2024-01-05"), StrC("not-a-date")}}
    ELSE ({<<IntC(n), d, Null>> :
             n \in Keys, d \in {StrC("2024-01-01"), StrC("not-a-date")}}
          \cup {<<Null, StrC("2024-01-01"), Null>>})

RawRows(h) ==
    {[c \in Range(h) |->
        CASE c = "order_id" -> t[1]
          [] c = "order_date" -> t[2]
          [] c = "ship_date" -> t[3]
          [] c = "user_id" -> IntC(7)
          [] c = "product_id" -> IntC(9)
          [] c = "quantity" -> IntC(3)
          [] OTHER -> IntC(2)] : t \in RowChoices(h)}

Sources ==
    UNION {{[cols |-> h, rows |-> rs] : rs \in SeqOf(RawRows(h), MaxRows)} :
           h \in PipelineHeaders}

NoFile == [cols |-> <<>>, rows |-> <<>>]
NoFrame == [cols |-> <<>>, dtype |-> <<>>, rows |-> <<>>]

----------------------------------------------------------------------------
(* The orchestrator: run_etl_from_minio_to_postgres *)

Ended == pc \in {"done", "failed"}

Fail(e) == pc' = "failed" /\ err' = e

\* a run starts: download_object_as_df(object_key).  The object is the one
\* the previous run read (the scheduled DAG re-reads one key) or a new upload.
Extract ==
    /\ pc = "idle"
    /\ runs < MaxRuns
    /\ runs' = runs + 1
    /\ IF rerun THEN src' = src ELSE src' \in Sources
    /\ df' = download_object_as_df(src')
    /\ pc' = "extracted"
    /\ stages' = <<"extract">>
    /\ UNCHANGED <<dq, mode, sink, staging, err, sinkAtStart, stagingAtStart,
                   rerun, prevDone, col, sqlType>>

\* s3.get_object raises (no such key, store unreachable)
ExtractFails ==
    /\ pc = "idle"
    /\ runs < MaxRuns
    /\ ~rerun
    /\ runs' = runs + 1
    /\ stages' = <<"extract">>
    /\ Fail(Raised("Extraction", "extract"))
    /\ UNCHANGED <<src, df, dq, mode, sink, staging, sinkAtStart, stagingAtStart,
                   rerun, prevDone, col, sqlType>>

\* the run has returned or raised; the scheduler triggers the next run, on
\* the same object (again = TRUE) or after a new upload
Return ==
    /\ Ended
    /\ runs < MaxRuns
    /\ \E again \in BOOLEAN :
          /\ again => src # NoFile
          /\ rerun' = again
          /\ src' = IF again THEN src ELSE NoFile
          /\ prevDone' = (again /\ pc = "done" /\ mode = "upsert")
    /\ pc' = "idle"
    /\ df' = NoFrame
    /\ dq' = <<>>
    /\ mode' = "none"
    /\ err' = NoError
    /\ stages' = <<>>
    /\ sinkAtStart' = sink
    /\ stagingAtStart' = staging
    /\ UNCHANGED <<runs, sink, staging, col, sqlType>>

Transform ==
    /\ pc = "extracted"
    /\ df' = transform_orders_df(df)
    /\ pc' = "transformed"
    /\ stages' = Append(stages, "transform")
    /\ UNCHANGED <<runs, src, dq, mode, sink, staging, err, sinkAtStart,
                   stagingAtStart, rerun, prevDone, col, sqlType>>

\* faulty variant: the report is logged and the run goes on
QualityGate_Continues ==
    /\ pc = "transformed"
    /\ dq' = basic_data_quality_checks(df)
    /\ stages' = Append(stages, "quality")
    /\ pc' = "gated" /\ err' = err
    /\ UNCHANGED <<runs, src, df, mode, sink, staging, sinkAtStart,
                   stagingAtStart, rerun, prevDone, col, sqlType>>

QualityGate ==
    /\ pc = "transformed"
    /\ dq' = basic_data_quality_checks(df)
    /\ stages' = Append(stages, "quality")
    /\ IF dq' # <<>> THEN Fail(Raised("DataQuality", "quality"))
       ELSE pc' = "gated" /\ err' = err
    /\ UNCHANGED <<runs, src, df, mode, sink, staging, sinkAtStart,
                   stagingAtStart, rerun, prevDone, col, sqlType>>

\* schema_check and the verdict of validate_dataframe_schema against the
\* schema document, which lives outside the program
StructuralValidation ==
    /\ pc = "gated"
    /\ \E schema_check \in BOOLEAN, schema_errors \in BOOLEAN :
          /\ stages' = IF schema_check THEN Append(stages, "validate") ELSE stages
          /\ IF schema_check /\ schema_errors THEN Fail(Raised("SchemaValidation", "validate"))
             ELSE pc' = "validated" /\ err' = err
    /\ UNCHANGED <<runs, src, df, dq, mode, sink, staging, sinkAtStart,
                   stagingAtStart, rerun, prevDone, col, sqlType>>

----------------------------------------------------------------------------
(* Load: load_df_to_postgres_upsert, one action per statement group; each   *)
(* database call either takes effect or raises (fault = TRUE: the server    *)
(* refuses or the connection is lost).                                      *)

\* perform_upsert = True; step 1, create the sink when it is missing
EnsureSink ==
    /\ pc = "validated"
    /\ mode' = "upsert"
    /\ stages' = Append(stages, "load")
    /\ \E fault \in BOOLEAN :
          IF fault /\ ~sink.exists
          THEN Fail(Fault("create_sink")) /\ sink' = sink
          ELSE /\ ~fault
               /\ sink' = create_table_if_not_exists(sink, df)
               /\ pc' = "sink_ready" /\ err' = err
    /\ UNCHANGED <<runs, src, df, dq, staging, sinkAtStart, stagingAtStart,
                   rerun, prevDone, col, sqlType>>

\* faulty variant: CREATE TABLE without the DROP TABLE IF EXISTS before it
CreateStaging_NoDrop ==
    /\ pc = "sink_ready"
    /\ \E outcome \in {"ok", "create_fails"} :
          CASE outcome = "create_fails" -> Fail(Fault("create_staging")) /\ staging' = staging
            [] staging.exists -> Fail(Raised("Load", "create_staging")) /\ staging' = staging
            [] OTHER -> /\ staging' = TableFor(df)
                        /\ pc' = "staging_created" /\ err' = err
    /\ UNCHANGED <<runs, src, df, dq, mode, sink, stages, sinkAtStart,
                   stagingAtStart, rerun, prevDone, col, sqlType>>

\* step 2, create_staging_table: DROP TABLE IF EXISTS, then CREATE TABLE
CreateStaging ==
    /\ pc = "sink_ready"
    /\ \E outcome \in {"ok", "drop_fails", "create_fails"} :
          CASE outcome = "drop_fails" -> Fail(Fault("drop_old_staging")) /\ staging' = staging
            [] outcome = "create_fails" -> Fail(Fault("create_staging")) /\ staging' = NoTable
            [] OTHER -> /\ staging' = TableFor(df)
                        /\ pc' = "staging_created" /\ err' = err
    /\ UNCHANGED <<runs, src, df, dq, mode, sink, stages, sinkAtStart,
                   stagingAtStart, rerun, prevDone, col, sqlType>>

\* step 3, COPY into staging
CopyToStaging ==
    /\ pc = "staging_created"
    /\ \E fault \in BOOLEAN :
          IF fault \/ CopyFails(staging, df)
          THEN /\ Fail(IF fault THEN Fault("copy") ELSE Raised("Load", "copy"))
               /\ staging' = staging
          ELSE /\ staging' = copy_df_to_table_via_copy(staging, df)
               /\ pc' = "copied" /\ err' = err
    /\ UNCHANGED <<runs, src, df, dq, mode, sink, stages, sinkAtStart,
                   stagingAtStart, rerun, prevDone, col, sqlType>>

\* step 4, attempt_cast_date_columns
CastDates ==
    /\ pc = "copied"
    /\ LET res == attempt_cast_date_columns(staging, df) IN
          /\ staging' = res.rel
          /\ IF res.err # NoError THEN Fail(res.err)
             ELSE pc' = "cast" /\ err' = err
    /\ UNCHANGED <<runs, src, df, dq, mode, sink, stages, sinkAtStart,
                   stagingAtStart, rerun, prevDone, col, sqlType>>

\* faulty variant: the upsert statement is committed on its own, before the DROP
MergeAndDrop_TwoTransactions ==
    /\ pc = "cast"
    /\ \E outcome \in {"commit", "upsert_fails", "drop_fails"} :
          IF outcome # "upsert_fails" /\ ~UpsertRejected(sink, staging, df.cols, UNIQUE_KEY)
          THEN /\ sink' = Upsert(sink, staging, df.cols, UNIQUE_KEY)
               /\ IF outcome = "commit"
                  THEN staging' = NoTable /\ pc' = "done" /\ err' = err
                  ELSE staging' = staging /\ Fail(Fault("drop_staging"))
          ELSE /\ Fail(IF outcome = "upsert_fails" THEN Fault("upsert")
                       ELSE Raised("Load", "upsert"))
               /\ sink' = sink
               /\ staging' = staging
    /\ UNCHANGED <<runs, src, df, dq, mode, stages, sinkAtStart,
                   stagingAtStart, rerun, prevDone, col, sqlType>>

\* steps 5 and 6, one transaction: the upsert statement, then DROP TABLE IF
\* EXISTS staging; an exception inside engine.begin() rolls both back
MergeAndDrop ==
    /\ pc = "cast"
    /\ \E outcome \in {"commit", "upsert_fails", "drop_fails"} :
          IF outcome = "commit" /\ ~UpsertRejected(sink, staging, df.cols, UNIQUE_KEY)
          THEN /\ sink' = Upsert(sink, staging, df.cols, UNIQUE_KEY)
               /\ staging' = NoTable
               /\ pc' = "done" /\ err' = err
          ELSE /\ Fail(CASE outcome = "commit" -> Raised("Load", "upsert")
                         [] outcome = "upsert_fails" -> Fault("upsert")
                         [] OTHER -> Fault("drop_staging"))
               /\ sink' = sink
               /\ staging' = staging
    /\ UNCHANGED <<runs, src, df, dq, mode, stages, sinkAtStart,
                   stagingAtStart, rerun, prevDone, col, sqlType>>

\* perform_upsert = False: COPY straight into the sink
AppendToSink ==
    /\ pc = "validated"
    /\ mode' = "append"
    /\ stages' = Append(stages, "load")
    /\ \E fault \in BOOLEAN :
          IF fault \/ CopyFails(sink, df)
          THEN /\ Fail(IF fault THEN Fault("append") ELSE Raised("Load", "append"))
               /\ sink' = sink
          ELSE /\ sink' = copy_df_to_table_via_copy(sink, df)
               /\ pc' = "done" /\ err' = err
    /\ UNCHANGED <<runs, src, df, dq, staging, sinkAtStart, stagingAtStart,
                   rerun, prevDone, col, sqlType>>

----------------------------------------------------------------------------
(* The pipeline *)

Init ==
    /\ pc = "idle"
    /\ runs = 0
    /\ src = NoFile
    /\ df = NoFrame
    /\ dq = <<>>
    /\ mode = "none"
    /\ sink \in {NoTable, ProvisionedSink}
    /\ staging = NoTable
    /\ err = NoError
    /\ stages = <<>>
    /\ sinkAtStart = sink
    /\ stagingAtStart = staging
    /\ rerun = FALSE
    /\ prevDone = FALSE
    /\ col = <<>>
    /\ sqlType = "none"

Next ==
    \/ Extract
    \/ ExtractFails
    \/ Return
    \/ Transform
    \/ QualityGate
    \/ StructuralValidation
    \/ EnsureSink
    \/ CreateStaging
    \/ CopyToStaging
    \/ CastDates
    \/ MergeAndDrop
    \/ AppendToSink

Spec == Init /\ [][Next]_vars

----------------------------------------------------------------------------
(* Properties of the load stage *)

KeysOf(rows) == {rows[i][UNIQUE_KEY] : i \in DOMAIN rows}

LoadEnded == Ended /\ mode = "upsert"

\* C1: after an upsert load has returned or raised, at whichever substage,
\* the staging relation of the sink does not exist
C1_NoStagingAfterLoad == LoadEnded => ~staging.exists

\* C4: an upsert load that raised, at any substage, leaves in the sink exactly
\* the rows it held when the load began (none when the sink did not exist)
C4_FailedLoadLeavesSink ==
    (pc = "failed" /\ mode = "upsert") =>
        /\ sink.rows = sinkAtStart.rows
        /\ ~sinkAtStart.exists => sink.rows = <<>>

\* C4 witness: the DROP inside the merge transaction failed after the upsert
\* statement of a non-empty staging relation had been executed against a sink
\* that would have changed
C4_Witness ==
    /\ pc = "failed" /\ mode = "upsert"
    /\ err.at = "drop_staging"
    /\ staging.rows # <<>>
    /\ ~UpsertRejected(sink, staging, df.cols, UNIQUE_KEY)
    /\ Upsert(sink, staging, df.cols, UNIQUE_KEY) # sink

\* the sink after the statement, stated from its inputs: old is the sink
\* before, stg the staging relation, cols the columns listed, new the sink after
MergeCorrect(old, stg, cols, new) ==
    LET staged == [i \in DOMAIN stg.rows |-> SinkRowOf(old, cols, stg.rows[i])] IN
    /\ \A i \in DOMAIN staged : \E j \in DOMAIN new.rows :
          /\ new.rows[j][UNIQUE_KEY] = staged[i][UNIQUE_KEY]
          /\ \A c \in Range(cols) : new.rows[j][c] = staged[i][c]
    /\ \A i \in DOMAIN old.rows :
          old.rows[i][UNIQUE_KEY] \notin KeysOf(staged) =>
              \E j \in DOMAIN new.rows : new.rows[j] = old.rows[i]
    /\ KeysOf(new.rows) = KeysOf(old.rows) \cup KeysOf(staged)
    /\ Len(new.rows) = Cardinality(KeysOf(new.rows))

\* C3: a successful upsert load leaves the sink equal, key by key, to the
\* sink before the merge overridden by the staging rows: every staging row is
\* in the sink with its values, conflicting rows carry the staging values in
\* every non-key column, rows with other keys are unchanged
C3_MergeCorrect ==
    [][(pc = "cast" /\ pc' = "done") =>
          MergeCorrect(sink, staging, df.cols, sink')]_vars

\* C3 witness: a load completed that updated a row the sink held and inserted
\* a row with a new key, leaving a third kind of row untouched or not
C3_Witness ==
    /\ pc = "done" /\ mode = "upsert"
    /\ Len(sink.rows) > Len(sinkAtStart.rows)
    /\ \E i \in DOMAIN sinkAtStart.rows : sink.rows[i] # sinkAtStart.rows[i]

\* C2: a pipeline run in upsert mode that repeats, on the same source object,
\* a run that completed leaves the sink exactly as that first run left it
C2_Idempotent ==
    (Ended /\ rerun /\ prevDone /\ mode # "append") => sink = sinkAtStart

\* C2 witness: the repeated run went through the merge of a non-empty frame
C2_Witness ==
    /\ pc = "done" /\ rerun /\ prevDone /\ mode = "upsert"
    /\ Len(df.rows) = MaxRows

\* the staging relation holds the frame of the current run and nothing else
StagingIsOf(stg, d) ==
    /\ stg.exists
    /\ stg.cols = d.cols
    /\ Len(stg.rows) = Len(d.rows)
    /\ \A i \in DOMAIN d.rows : \A c \in Range(d.cols) :
          \/ IsNull(stg.rows[i][c]) /\ IsNull(d.rows[i][c])
          \/ CellText(stg.rows[i][c]) = CellText(d.rows[i][c])

\* the frame fits the provisioned sink and all its date columns hold dates
ValidFor(snk, d) ==
    /\ snk.exists /\ snk.key = UNIQUE_KEY
    /\ Range(d.cols) \subseteq Range(snk.cols)

\* C10: a staging relation left by an earlier run, whatever its columns and
\* rows, does not block a later upsert load: the relation that is merged
\* holds exactly the later run's records, and with data the sink accepts the
\* later load completes unless the database fails
C10_IdempotentStart ==
    /\ pc \in {"copied", "cast"} => StagingIsOf(staging, df)
    /\ (LoadEnded /\ stagingAtStart.exists /\ ValidFor(sinkAtStart, df) /\ ~err.injected)
          => pc = "done"

\* C10 witness: a load completed although the run began with a staging
\* relation of other columns that held rows
C10_Witness ==
    /\ pc = "done" /\ mode = "upsert"
    /\ stagingAtStart.exists
    /\ stagingAtStart.rows # <<>>
    /\ stagingAtStart.cols # df.cols

\* C11: an upsert load that finds no sink creates it with the columns of the
\* frame and no rows, the merge statement of the same run is then accepted
\* and leaves one sink row per record of the frame; a sink that exists keeps
\* its columns and column types
C11_LazySinkMerges ==
    /\ (pc = "sink_ready" /\ ~sinkAtStart.exists) =>
          sink.exists /\ sink.cols = df.cols /\ sink.rows = <<>>
    /\ (pc = "failed" /\ mode = "upsert" /\ ~sinkAtStart.exists /\ err.at = "upsert") =>
          err.injected
    /\ (pc = "done" /\ mode = "upsert" /\ ~sinkAtStart.exists) =>
          /\ Len(sink.rows) = Len(df.rows)
          /\ KeysOf(sink.rows) = KeysOf(df.rows)
    /\ (mode = "upsert" /\ sinkAtStart.exists) =>
          sink.cols = sinkAtStart.cols /\ sink.types = sinkAtStart.types

----------------------------------------------------------------------------
(* Runs in both load modes against one sink: single-record order files,     *)
(* up to MaxSinkRuns runs, each an upsert run or an append-only run         *)

MaxSinkRuns == 3

\* order files of one record with a key of Keys and a well-formed date
SinkSources ==
    {[cols |-> REQUIRED_COLUMNS, rows |-> <<r>>] :
        r \in {x \in RawRows(REQUIRED_COLUMNS) :
                  ~IsNull(x["order_id"]) /\ x["order_date"] = StrC("2024-01-01")}}

\* a run starts: download_object_as_df(object_key)
SinkExtract ==
    /\ pc = "idle"
    /\ runs < MaxSinkRuns
    /\ runs' = runs + 1
    /\ IF rerun THEN src' = src ELSE src' \in SinkSources
    /\ df' = download_object_as_df(src')
    /\ pc' = "extracted"
    /\ stages' = <<"extract">>
    /\ UNCHANGED <<dq, mode, sink, staging, err, sinkAtStart, stagingAtStart,
                   rerun, prevDone, col, sqlType>>

\* the run has returned or raised; the scheduler triggers the next run, on
\* the same object or after a new upload
SinkReturn ==
    /\ Ended
    /\ runs < MaxSinkRuns
    /\ \E again \in BOOLEAN :
          /\ again => src # NoFile
          /\ rerun' = again
          /\ src' = IF again THEN src ELSE NoFile
          /\ prevDone' = (again /\ pc = "done" /\ mode = "upsert")
    /\ pc' = "idle"
    /\ df' = NoFrame
    /\ dq' = <<>>
    /\ mode' = "none"
    /\ err' = NoError
    /\ stages' = <<>>
    /\ sinkAtStart' = sink
    /\ stagingAtStart' = staging
    /\ UNCHANGED <<runs, sink, staging, col, sqlType>>

NextSink ==
    \/ SinkExtract
    \/ SinkReturn
    \/ Transform
    \/ QualityGate
    \/ StructuralValidation
    \/ EnsureSink
    \/ CreateStaging
    \/ CopyToStaging
    \/ CastDates
    \/ MergeAndDrop
    \/ AppendToSink

SpecSink == Init /\ [][NextSink]_vars

----------------------------------------------------------------------------
(* Properties of the orchestrator *)

StageOrder == <<"extract", "transform", "quality", "validate", "load">>

IsPrefix(s, t) == Len(s) <= Len(t) /\ \A i \in DOMAIN s : s[i] = t[i]

StageOf(at) ==
    CASE at \in {"extract", "transform", "quality", "validate"} -> at
      [] OTHER -> "load"

\* C5: a non-empty quality report stops the run before structural validation
\* and load, with the sink and the staging relation as they were before the
\* run; the stages run in the order extract, transform, quality gate,
\* structural validation (when asked for), load, and the stage that failed is
\* the last one that ran
C5_HardStop ==
    /\ dq # <<>> =>
          /\ pc = "failed"
          /\ stages = <<"extract", "transform", "quality">>
          /\ mode = "none"
          /\ sink = sinkAtStart /\ staging = stagingAtStart
    /\ \/ IsPrefix(stages, StageOrder)
       \/ IsPrefix(stages, <<"extract", "transform", "quality", "load">>)
    /\ pc = "failed" => stages # <<>> /\ stages[Len(stages)] = StageOf(err.at)
    /\ mode = "none" => sink = sinkAtStart /\ staging = stagingAtStart

\* C5 witness: the gate rejected a frame while a staging relation left by an
\* earlier load and the sink were there to be left alone
C5_Witness ==
    /\ pc = "failed" /\ dq # <<>>
    /\ sink.exists /\ staging.exists /\ staging.rows # <<>>

----------------------------------------------------------------------------
(* Transform and quality gate on their own: every frame of FnSources is     *)
(* transformed, and the gate is applied to the raw and to the clean frame   *)

FnHeaders ==
    {REQUIRED_COLUMNS,
     <<" Order_ID ", "user_id", "product_id", "Quantity", "price", "ORDER_DATE">>,
     <<"user_id", "product_id", "quantity", "price", "order_date">>,
     <<"order_id", "product_id", "quantity", "price", "order_date">>,
     <<"order_id", "user_id", "product_id", "price", "order_date">>}

FnRows(h) ==
    {[c \in Range(h) |->
        CASE NormalizeName(c) = "order_id" -> t[1]
          [] NormalizeName(c) = "quantity" -> t[2]
          [] NormalizeName(c) = "order_date" -> t[3]
          [] c = "user_id" -> IntC(7)
          [] c = "product_id" -> IntC(9)
          [] OTHER -> FloatC(25)] :
      t \in ({Null} \cup {IntC(n) : n \in Keys})
            \X {IntC(3), StrC("x")}
            \X {StrC("2024-01-02T10:00:00"), StrC("not-a-date")}}

FnSources ==
    UNION {{[cols |-> h, rows |-> rs] : rs \in SeqOf(FnRows(h), MaxFnRows)} :
           h \in FnHeaders}

\* the variables a function run does not use
NoPipeline ==
    /\ runs = 0 /\ mode = "none" /\ sink = NoTable /\ stages = <<>>
    /\ sinkAtStart = NoTable /\ stagingAtStart = NoTable
    /\ rerun = FALSE /\ prevDone = FALSE

InitTransform ==
    /\ NoPipeline
    /\ pc = "fn_raw"
    /\ src \in FnSources
    /\ df = download_object_as_df(src)
    /\ dq = <<>>
    /\ staging = NoTable
    /\ err = NoError
    /\ col = <<>>
    /\ sqlType = "none"

TransformFn ==
    /\ pc = "fn_raw"
    /\ df' = transform_orders_df(df)
    /\ pc' = "fn_clean"
    /\ UNCHANGED <<runs, src, dq, mode, sink, staging, err, stages, sinkAtStart,
                   stagingAtStart, rerun, prevDone, col, sqlType>>

QualityGateFn ==
    /\ pc \in {"fn_raw", "fn_clean"}
    /\ dq' = basic_data_quality_checks(df)
    /\ pc' = IF pc = "fn_raw" THEN "fn_raw_checked" ELSE "fn_clean_checked"
    /\ UNCHANGED <<runs, src, df, mode, sink, staging, err, stages, sinkAtStart,
                   stagingAtStart, rerun, prevDone, col, sqlType>>

NextTransform == TransformFn \/ QualityGateFn

SpecTransform == InitTransform /\ [][NextTransform]_vars

\* the frame transform_orders_df was given, and its unique-key column
RawFrame == download_object_as_df(src)
RawKeyCols == {c \in Range(RawFrame.cols) : NormalizeName(c) = UNIQUE_KEY}
RawKeyNull(i) == \E c \in RawKeyCols : IsNull(RawFrame.rows[i][c])
KeptIndexes == SelectSeq([i \in DOMAIN RawFrame.rows |-> i], LAMBDA i : ~RawKeyNull(i))

\* C7: the frame transform_orders_df returns has no record with a null
\* unique-key value, and its records are the input records whose key is not
\* null, in their order (a frame with no key column has no key values and
\* keeps every record)
C7_NoNullKeys ==
    pc \in {"fn_clean", "fn_clean_checked"} =>
        /\ UNIQUE_KEY \in Range(df.cols) =>
              \A i \in DOMAIN df.rows : ~IsNull(df.rows[i][UNIQUE_KEY])
        /\ Len(df.rows) = Len(KeptIndexes)
        /\ \A j \in DOMAIN df.rows : \A c \in Range(RawFrame.cols) :
              NormalizeName(c) \in {"order_id", "user_id", "product_id"} =>
                  df.rows[j][NormalizeName(c)] = RawFrame.rows[KeptIndexes[j]][c]

\* C7 witness: a record with a null key stood before a record that was kept
C7_Witness ==
    /\ pc = "fn_clean"
    /\ Len(RawFrame.rows) = MaxFnRows
    /\ RawKeyNull(1)
    /\ Len(df.rows) = MaxFnRows - 1

\* C6: a frame for which the quality gate returns an empty report has at
\* least one record, has every required column, and no two of its records
\* have the same unique-key value
C6_GatePassed ==
    (pc \in {"fn_raw_checked", "fn_clean_checked"} /\ dq = <<>>) =>
        /\ Len(df.rows) > 0
        /\ \A i \in DOMAIN REQUIRED_COLUMNS : REQUIRED_COLUMNS[i] \in Range(df.cols)
        /\ Cardinality(KeysOf(df.rows)) = Len(df.rows)

\* C6 witness: the gate passed a frame of several records
C6_Witness ==
    /\ pc \in {"fn_raw_checked", "fn_clean_checked"} /\ dq = <<>>
    /\ Len(df.rows) = MaxFnRows

----------------------------------------------------------------------------
(* The type inferencer on its own: one column of values, as pd.Series      *)
(* builds it, handed to pandas_dtype_to_sqlalchemy                          *)

InferCells ==
    {IntC(1), IntC(2), FloatC(15), FloatC(20), BoolC(TRUE), BoolC(FALSE),
     StrC("2024-01-01"), StrC("2024-01-02"), StrC("a"), TsC("2024-01-01"), Null}

InitInfer ==
    /\ NoPipeline
    /\ pc = "fn_column"
    /\ col \in SeqOf(InferCells, MaxColLen) \ {<<>>}
    /\ sqlType = "none"
    /\ src = NoFile /\ df = NoFrame /\ dq = <<>>
    /\ staging = NoTable
    /\ err = NoError

InferFn ==
    /\ pc = "fn_column"
    /\ sqlType' = pandas_dtype_to_sqlalchemy(InferDtype(col))
    /\ pc' = "fn_inferred"
    /\ UNCHANGED <<runs, src, df, dq, mode, sink, staging, err, stages, sinkAtStart,
                   stagingAtStart, rerun, prevDone, col>>

NextInfer == InferFn

SpecInfer == InitInfer /\ [][NextInfer]_vars

KindsOf(cells) == {cells[i].k : i \in DOMAIN cells}
DateFormatted(cells) ==
    \A i \in DOMAIN cells : cells[i].k = "str" /\ PgDate(cells[i].v) # ""

\* C8 as claimed: integers infer INTEGER, numbers with a non-integer FLOAT,
\* booleans BOOLEAN, date/time values and date-formatted strings DATE,
\* anything else TEXT
C8_AsClaimed ==
    (pc = "fn_inferred" /\ "null" \notin KindsOf(col)) =>
        sqlType = CASE KindsOf(col) = {"int"} -> "INTEGER"
                    [] KindsOf(col) \subseteq {"int", "float"} -> "FLOAT"
                    [] KindsOf(col) = {"bool"} -> "BOOLEAN"
                    [] KindsOf(col) = {"ts"} \/ DateFormatted(col) -> "DATE"
                    [] OTHER -> "TEXT"

\* C8, amended: the type follows the dtype of the column: integers infer
\* INTEGER, numbers with a float or a missing value FLOAT, booleans BOOLEAN,
\* timestamps DATE, and every column of strings TEXT, date-formatted or not;
\* one of the five types is always returned
C8_ByDtype ==
    pc = "fn_inferred" =>
        /\ sqlType \in {"INTEGER", "FLOAT", "BOOLEAN", "DATE", "TEXT"}
        /\ KindsOf(col) = {"int"} => sqlType = "INTEGER"
        /\ (KindsOf(col) \subseteq {"int", "float", "null"} /\ "float" \in KindsOf(col))
              => sqlType = "FLOAT"
        /\ KindsOf(col) = {"int", "null"} => sqlType = "FLOAT"
        /\ KindsOf(col) = {"bool"} => sqlType = "BOOLEAN"
        /\ (KindsOf(col) \subseteq {"ts", "null"} /\ "ts" \in KindsOf(col))
              => sqlType = "DATE"
        /\ "str" \in KindsOf(col) => sqlType = "TEXT"

\* C8 witness: a column of date-formatted strings has been inferred
C8_Witness ==
    /\ pc = "fn_inferred"
    /\ Len(col) = MaxColLen
    /\ DateFormatted(col)
    /\ sqlType = "TEXT"

----------------------------------------------------------------------------
(* Date reconciliation on its own: a frame is staged the way the loader     *)
(* stages it and attempt_cast_date_columns runs on the staging relation     *)

CastHeaders ==
    {<<"order_id", "order_date", "Ship_Date", "note">>,
     <<"order_id", "date_id", "order_date">>}

\* n records; record b1 holds a non-date in order_date and record b2 one in
\* Ship_Date (0: no such record); note never holds a date
CastFile(h, n, b1, b2) ==
    [cols |-> h,
     rows |-> [i \in 1..n |-> [c \in Range(h) |->
        CASE c = "order_id" -> IntC(i)
          [] c = "date_id" -> IntC(20240101)
          [] c = "order_date" ->
                IF i = b1 THEN StrC("not-a-date") ELSE StrC("2024-01-01")
          [] c = "Ship_Date" ->
                IF i = b2 THEN StrC("not-a-date") ELSE StrC("2024-01-05")
          [] OTHER -> StrC("not-a-date")]]]

CastFiles ==
    {CastFile(h, n, b1, b2) :
        h \in CastHeaders, n \in 0..MaxCastRows, b1 \in 0..MaxCastRows,
        b2 \in 0..MaxCastRows}

InitCast ==
    /\ runs = 0 /\ mode = "none" /\ sink = NoTable /\ stages = <<>>
    /\ sinkAtStart = NoTable /\ rerun = FALSE /\ prevDone = FALSE
    /\ pc = "fn_staged"
    /\ src \in CastFiles
    /\ df = download_object_as_df(src)
    /\ staging = copy_df_to_table_via_copy(TableFor(df), df)
    /\ stagingAtStart = staging
    /\ dq = <<>>
    /\ err = NoError
    /\ col = <<>>
    /\ sqlType = "none"

CastFn ==
    /\ pc = "fn_staged"
    /\ staging' = attempt_cast_date_columns(staging, df).rel
    /\ err' = attempt_cast_date_columns(staging, df).err
    /\ pc' = "fn_cast"
    /\ UNCHANGED <<runs, src, df, dq, mode, sink, stages, sinkAtStart,
                   stagingAtStart, rerun, prevDone, col, sqlType>>

NextCast == CastFn

SpecCast == InitCast /\ [][NextCast]_vars

\* column c of the relation holds a value that is not a date
HoldsNonDate(rel, c) ==
    \E i \in DOMAIN rel.rows :
        /\ ~IsNull(rel.rows[i][c])
        /\ rel.rows[i][c].k # "str" \/ PgDate(rel.rows[i][c].v) = ""

FirstValues(rel, c) ==
    [i \in 1..(IF Len(rel.rows) < SampleLimit THEN Len(rel.rows) ELSE SampleLimit) |->
        rel.rows[i][c]]

NonDateColumnsKept ==
    \A c \in Range(stagingAtStart.cols) :
        ~ContainsDate(c) =>
            /\ staging.types[c] = stagingAtStart.types[c]
            /\ ColumnOf(staging.rows, c) = ColumnOf(stagingAtStart.rows, c)

====
